---- MODULE Spec2Model ----
(***************************************************************************)
(* Model of daq/ScanLockin.py: the batch controller JPLScanWindow and the  *)
(* per-window scan engine it instantiates (TestClass, line 194), and the    *)
(* engine class SingleScan that TestClass stands in for.                   *)
(*                                                                         *)
(* Qt semantics used by the model:                                         *)
(*  - a signal connected inside one thread calls its slots synchronously,  *)
(*    so move_to_next_entry.emit() runs next_entry() before it returns;    *)
(*  - a single-shot QTimer becomes inactive when it expires and then calls *)
(*    every slot connected to timeout; start() on a running timer restarts *)
(*    it; stop() cancels it;                                               *)
(*  - a checkable QPushButton toggles on every click and passes its new    *)
(*    checked state to the slot;                                           *)
(*  - exec_() of a message box runs a nested event loop in which timers    *)
(*    keep expiring while the input of the window under it is blocked.     *)
(* Python arrays are 0-based; the sequences here are 1-based, so element   *)
(* current_x_index of the code is element current_x_index + 1 here.        *)
(***************************************************************************)
EXTENDS Integers, Sequences, FiniteSets, TLC

\* ---------------------------------------------------------------- bounds
MaxK == 2
MaxStop == 2
MaxAvg == 2
MaxSample == 2
\* axis points times averages of one window
MaxWork == 4
\* the same, summed over the windows of a plan
MaxPlanWork == 6

\* the values np.random.random_sample() may return at one acquisition
Samples == 1..MaxSample

\* (start, stop, step, averages) of one batch entry; sens, tc, itgtime and
\* waittime do not influence the control flow and are left out
Entries ==
    {e \in [start : {0}, stop : 0..MaxStop, step : {1}, avg : 1..MaxAvg] :
        (e.stop + 1) * e.avg <= MaxWork}

RECURSIVE PlanWork(_)
PlanWork(p) ==
    IF p = <<>> THEN 0
    ELSE (Head(p).stop + 1) * Head(p).avg + PlanWork(Tail(p))

Plans ==
    {p \in UNION {[1..k -> Entries] : k \in 1..MaxK} :
        PlanWork(p) <= MaxPlanWork}

VARIABLES
    entry_settings,       \* JPLScanWindow.entry_settings (the batch plan)
    current_entry_index,  \* JPLScanWindow.current_entry_index
    x,                    \* frequency axis of the installed window
    y,                    \* current-pass sample array
    y_sum,                \* accumulated-sum array
    current_x_index,      \* 0-based index into x
    avg,                  \* requested average count
    current_avg,          \* completed-pass counter
    waitActive,           \* waitTimer is armed
    itgActive,            \* itgTimer is armed
    waitSlots,            \* slots connected to waitTimer.timeout, in order
    engine,               \* class of JPLScanWindow.singleScan
    paused,               \* pauseButton.isChecked()
    dialogs,              \* stack of open modal message boxes
    done,                 \* JPLScanWindow.accept() was called
    ev,                   \* calls made by the last step, in order
    saved,                \* what the last step handed to save_data
    installed,            \* history: arguments of the update_setting calls
    snaps,                \* history: y at each pass boundary of the window
    everPaused,           \* history: pause_scan was called
    aborted,              \* history: reject() was answered Yes
    failed,               \* history: a slot was ended by an exception of an
                          \* instrument call or of the buffer read
    tuned,                \* history: tune_syn was called since the last
                          \* buffer start
    buffered,             \* history: the buffer was started since the last
                          \* sample
    acq,                  \* history: the indices sampled in the window, in
                          \* the order of acquisition
    vals,                 \* history: the samples acquired in the window, in
                          \* the same order
    foldAt,               \* history: the number of samples acquired in the
                          \* window at each of its pass boundaries
    twin                  \* a TestClass engine given the same events as the
                          \* engine above, <<>> when none is run alongside

vars == <<entry_settings, current_entry_index, x, y, y_sum, current_x_index,
          avg, current_avg, waitActive, itgActive, waitSlots, engine, paused,
          dialogs, done, ev, saved, installed, snaps, everPaused, aborted,
          failed, tuned, buffered, acq, vals, foldAt, twin>>

\* ---------------------------------------------------------------- helpers
Range(s) == {s[i] : i \in 1..Len(s)}

NoSave == [entry |-> -1, num |-> <<>>, den |-> 0]

gen_x_array(start, stop, step) ==
    [i \in 1..((stop - start) \div step + 1) |-> start + (i - 1) * step]

zeros_like(a) == [i \in 1..Len(a) |-> 0]

\* instrument calls of SingleScan that can raise: apilc.set_sens / set_tc
\* (lines 341-342), apisyn.set_syn_freq (line 348), lcHandle.write (355-361)
Faults == {"sens", "tune", "strt"}

\* the engine and controller fields as one record, at the start of a step;
\* fail is the set of instrument calls that raise during the step
St == [entry_settings |-> entry_settings,
       current_entry_index |-> current_entry_index,
       x |-> x, y |-> y, y_sum |-> y_sum,
       current_x_index |-> current_x_index,
       avg |-> avg, current_avg |-> current_avg,
       waitActive |-> waitActive, itgActive |-> itgActive,
       waitSlots |-> waitSlots, engine |-> engine, paused |-> paused,
       dialogs |-> dialogs, done |-> done,
       ev |-> <<>>, saved |-> NoSave,
       installed |-> installed, snaps |-> snaps,
       everPaused |-> everPaused, aborted |-> aborted,
       failed |-> failed, acq |-> acq, vals |-> vals,
       foldAt |-> foldAt, twin |-> twin, fail |-> {}]

\* F applied to the value of v: a method works on the object as it stands
\* at the call, v is evaluated once
Once(v, F(_)) == CHOOSE z \in {F(r) : r \in {v}} : TRUE

\* flag after the calls of a step: the call on sets it, the call off clears it
RECURSIVE After(_, _, _, _)
After(flag, calls, on, off) ==
    IF calls = <<>> THEN flag
    ELSE After(IF Head(calls) = on THEN TRUE
               ELSE IF Head(calls) = off THEN FALSE ELSE flag,
               Tail(calls), on, off)

\* s is evaluated once and its fields are assigned
Commit(s) ==
    \E r \in {s} :
        /\ entry_settings' = r.entry_settings
        /\ current_entry_index' = r.current_entry_index
        /\ x' = r.x
        /\ y' = r.y
        /\ y_sum' = r.y_sum
        /\ current_x_index' = r.current_x_index
        /\ avg' = r.avg
        /\ current_avg' = r.current_avg
        /\ waitActive' = r.waitActive
        /\ itgActive' = r.itgActive
        /\ waitSlots' = r.waitSlots
        /\ engine' = r.engine
        /\ paused' = r.paused
        /\ dialogs' = r.dialogs
        /\ done' = r.done
        /\ ev' = r.ev
        /\ saved' = r.saved
        /\ installed' = r.installed
        /\ snaps' = r.snaps
        /\ everPaused' = r.everPaused
        /\ aborted' = r.aborted
        /\ failed' = r.failed
        /\ tuned' = After(tuned, r.ev, "tune", "strt")
        /\ buffered' = After(buffered, r.ev, "strt", "sample")
        /\ acq' = r.acq
        /\ vals' = r.vals
        /\ foldAt' = r.foldAt
        /\ twin' = r.twin

\* ------------------------------------------------------ TestClass methods
\* variant: the synthesizer is tuned but waitTimer is not started
tune_syn_nostart(s) ==
    [s EXCEPT !.ev = Append(@, "tune")]

tune_syn(s) ==
    [s EXCEPT !.ev = Append(@, "tune"), !.waitActive = TRUE]

set_lockin_buffer(s) ==
    [s EXCEPT !.ev = Append(@, "strt"), !.itgActive = TRUE]

\* variant: the pass replaces the sum instead of being added to it
update_ysum_replace(s) ==
    [s EXCEPT !.y_sum = s.y, !.ev = Append(@, "fold")]

update_ysum(s0) ==
    Once(s0, LAMBDA s :
        [s EXCEPT !.y_sum = [i \in 1..Len(s.y_sum) |-> s.y_sum[i] + s.y[i]],
                  !.ev = Append(@, "fold")])

\* variant: at the boundary the index also takes the first step of the next
\* pass, so the turning point is not sampled again
pass_boundary_turn(s) ==
    LET s1 == update_ysum([s EXCEPT !.current_avg = @ + 1,
                          !.foldAt = IF s.current_avg = 0 THEN <<Len(s.acq)>>
                                    ELSE Append(@, Len(s.acq)),
                          !.snaps = IF s.current_avg = 0 THEN <<s.y>>
                                    ELSE Append(@, s.y)])
    IN IF s1.current_avg % 2 = 1
       THEN IF s1.current_x_index < Len(s1.x) - 1
            THEN [s1 EXCEPT !.current_x_index = @ + 1] ELSE s1
       ELSE IF s1.current_x_index > 0
            THEN [s1 EXCEPT !.current_x_index = @ - 1] ELSE s1

\* variant: the pass array is cleared once it has been folded
pass_boundary_clear(s) ==
    [update_ysum([s EXCEPT !.current_avg = @ + 1,
                           !.foldAt = IF s.current_avg = 0 THEN <<Len(s.acq)>>
                                     ELSE Append(@, Len(s.acq)),
                           !.snaps = IF s.current_avg = 0 THEN <<s.y>>
                                     ELSE Append(@, s.y)])
        EXCEPT !.y = zeros_like(s.y)]

\* the pass boundary of next_freq: current_avg += 1; update_ysum()
\* (snaps records the array that is folded; a window's first fold restarts it)
pass_boundary(s0) ==
    Once(s0, LAMBDA s :
        update_ysum([s EXCEPT !.current_avg = @ + 1,
                              !.foldAt = IF s.current_avg = 0 THEN <<Len(s.acq)>>
                                        ELSE Append(@, Len(s.acq)),
                              !.snaps = IF s.current_avg = 0 THEN <<s.y>>
                                        ELSE Append(@, s.y)]))

\* variant: the array is folded after every sample, not only at the boundary
next_freq_fold_each(s) ==
    IF s.current_avg % 2 = 1
    THEN IF s.current_x_index < Len(s.x) - 1
         THEN update_ysum([s EXCEPT !.current_x_index = @ + 1])
         ELSE pass_boundary(s)
    ELSE IF s.current_x_index > 0
         THEN update_ysum([s EXCEPT !.current_x_index = @ - 1])
         ELSE pass_boundary(s)

next_freq(s0) ==
    Once(s0, LAMBDA s :
        IF s.current_avg % 2 = 1
        THEN IF s.current_x_index < Len(s.x) - 1
             THEN [s EXCEPT !.current_x_index = @ + 1]
             ELSE pass_boundary(s)
        ELSE IF s.current_x_index > 0
             THEN [s EXCEPT !.current_x_index = @ - 1]
             ELSE pass_boundary(s))

\* variant: the pass counter starts at 1, there is no priming pass
update_setting_noprime(s, entry_setting) ==
    LET nx == gen_x_array(entry_setting.start, entry_setting.stop,
                          entry_setting.step)
    IN tune_syn([s EXCEPT !.x = nx,
                          !.current_x_index = 0,
                          !.avg = entry_setting.avg,
                          !.current_avg = 1,
                          !.y = zeros_like(nx),
                          !.y_sum = zeros_like(nx),
                          !.acq = <<>>, !.vals = <<>>, !.foldAt = <<>>,
                          !.ev = Append(@, "install"),
                          !.installed = Append(@,
                              [index |-> s.current_entry_index,
                               entry |-> entry_setting])])

\* variant: y_sum is re-created only when the axis length changes
update_setting_stale(s, entry_setting) ==
    LET nx == gen_x_array(entry_setting.start, entry_setting.stop,
                          entry_setting.step)
    IN tune_syn([s EXCEPT !.x = nx,
                          !.current_x_index = 0,
                          !.avg = entry_setting.avg,
                          !.current_avg = 0,
                          !.y = zeros_like(nx),
                          !.y_sum = IF Len(s.y_sum) = Len(nx) THEN s.y_sum
                                    ELSE zeros_like(nx),
                          !.ev = Append(@, "install"),
                          !.installed = Append(@,
                              [index |-> s.current_entry_index,
                               entry |-> entry_setting])])

update_setting(s0, entry_setting) ==
    Once(s0, LAMBDA s :
        LET nx == gen_x_array(entry_setting.start, entry_setting.stop,
                              entry_setting.step)
        IN tune_syn([s EXCEPT !.x = nx,
                              !.current_x_index = 0,
                              !.avg = entry_setting.avg,
                              !.current_avg = 0,
                              !.y = zeros_like(nx),
                              !.y_sum = zeros_like(nx),
                              !.ev = Append(@, "install"),
                              !.installed = Append(@,
                                  [index |-> s.current_entry_index,
                                   entry |-> entry_setting])]))

\* ----------------------------------------------------- SingleScan methods
\* an exception leaves the method at the raising call: nothing after it runs
raise(s, e) == [s EXCEPT !.ev = Append(@, e), !.failed = TRUE]

SingleScan_tune_syn(s) ==
    IF "tune" \in s.fail THEN raise(s, "error")
    ELSE [s EXCEPT !.ev = Append(@, "tune"), !.waitActive = TRUE]

SingleScan_set_lockin_buffer(s) ==
    IF "strt" \in s.fail THEN raise(s, "error")
    ELSE [s EXCEPT !.ev = Append(@, "strt"), !.itgActive = TRUE]

SingleScan_update_setting(s, entry_setting) ==
    LET nx == gen_x_array(entry_setting.start, entry_setting.stop,
                          entry_setting.step)
        s1 == [s EXCEPT !.x = nx,
                        !.current_x_index = 0,
                        !.avg = entry_setting.avg,
                        !.current_avg = 0,
                        !.y = zeros_like(nx),
                        !.y_sum = zeros_like(nx),
                        !.ev = Append(@, "install"),
                        !.installed = Append(@,
                            [index |-> s.current_entry_index,
                             entry |-> entry_setting])]
    IN IF "sens" \in s.fail THEN raise(s1, "error")
       ELSE SingleScan_tune_syn(s1)

\* s without the first occurrence of slot
RemoveSlot(slots, slot) ==
    LET k == CHOOSE i \in 1..Len(slots) :
                 slots[i] = slot /\ \A j \in 1..(i - 1) : slots[j] # slot
    IN SubSeq(slots, 1, k - 1) \o SubSeq(slots, k + 1, Len(slots))

\* timeout.disconnect(self.tune_syn) raises TypeError when tune_syn is not
\* connected; connect(self.tune_syn) adds it to the slots already connected
SingleScan_pause_scan(s, btn_pressed) ==
    IF btn_pressed
    THEN IF "tune_syn" \in Range(s.waitSlots)
         THEN [s EXCEPT !.waitSlots = RemoveSlot(@, "tune_syn")]
         ELSE [s EXCEPT !.ev = Append(@, "TypeError")]
    ELSE [s EXCEPT !.waitSlots = Append(@, "tune_syn"),
                   !.waitActive = TRUE]

\* ------------------------------------------------- JPLScanWindow methods
\* variant: only the integration timer is stopped
stop_timers_itg_only(s) ==
    [s EXCEPT !.itgActive = FALSE]

stop_timers(s) ==
    [s EXCEPT !.itgActive = FALSE, !.waitActive = FALSE]

\* finish() up to msg.exec_(): the message box is shown, its event loop runs
finish(s) ==
    [s EXCEPT !.ev = Append(@, "finish"), !.dialogs = Append(@, "finish")]

\* variant: the index is incremented after it is used, so the first install
\* reads entry_settings[-1], the last entry, and later ones lag by one
next_entry_late(s) ==
    LET s1 == [s EXCEPT !.current_entry_index = @ + 1]
        k == IF s.current_entry_index = -1 THEN Len(s.entry_settings)
             ELSE s.current_entry_index + 1
    IN IF s1.current_entry_index < Len(s1.entry_settings)
       THEN update_setting(s1, s1.entry_settings[k])
       ELSE finish(s1)

next_entry(s0) ==
    Once(s0, LAMBDA s :
        LET s1 == [s EXCEPT !.current_entry_index = @ + 1]
        IN IF s1.current_entry_index < Len(s1.entry_settings)
           THEN IF s1.engine = "TestClass"
                THEN update_setting(s1,
                         s1.entry_settings[s1.current_entry_index + 1])
                ELSE SingleScan_update_setting(s1,
                         s1.entry_settings[s1.current_entry_index + 1])
           ELSE finish(s1))

\* variant: move_to_next_entry is connected twice, next_entry runs twice
save_data_twice(s) ==
    next_entry(next_entry([s EXCEPT !.ev = Append(@, "save"),
                         !.saved = [entry |-> s.current_entry_index,
                                    num |-> s.y_sum,
                                    den |-> s.current_avg]]))

\* save_data: the spectrum is y_sum / current_avg (SingleScan.save_data, line
\* 423), kept as numerator and denominator; then move_to_next_entry.emit()
save_data(s0) ==
    Once(s0, LAMBDA s :
        next_entry([s EXCEPT !.ev = Append(@, "save"),
                             !.saved = [entry |-> s.current_entry_index,
                                        num |-> s.y_sum,
                                        den |-> s.current_avg]]))

\* variant: the termination test is >= instead of >
query_lockin_buffer_ge(s, y_avg) ==
    LET s1 == [s EXCEPT !.y[s.current_x_index + 1] = y_avg,
                        !.ev = Append(@, "sample"),
                        !.acq = IF s.current_avg = 0
                                THEN <<s.current_x_index>>
                                ELSE Append(@, s.current_x_index),
                        !.vals = IF s.current_avg = 0 THEN <<y_avg>>
                                ELSE Append(@, y_avg)]
        s2 == next_freq(s1)
    IN IF s2.current_avg >= s2.avg THEN save_data(s2) ELSE tune_syn(s2)

query_lockin_buffer(s0, y_avg) ==
    Once(s0, LAMBDA s :
        LET s1 == [s EXCEPT !.y[s.current_x_index + 1] = y_avg,
                            !.ev = Append(@, "sample"),
                            !.acq = IF s.current_avg = 0
                                    THEN <<s.current_x_index>>
                                    ELSE Append(@, s.current_x_index),
                            !.vals = IF s.current_avg = 0 THEN <<y_avg>>
                                    ELSE Append(@, y_avg)]
            s2 == next_freq(s1)
        IN IF s2.current_avg > s2.avg THEN save_data(s2) ELSE tune_syn(s2))

\* variant: the failed read is swallowed and the window is given up, the
\* batch moves on to the next entry
SingleScan_query_lockin_buffer_skip(s, y_avg) ==
    next_entry(raise(s, "NameError"))

\* line 368 reads the name lcHandle, which is bound nowhere in the module:
\* the slot raises NameError before it changes anything
SingleScan_query_lockin_buffer(s, y_avg) ==
    raise(s, "NameError")

\* variant: pausing also stops the settle timer
pause_scan_stop(s, btn_pressed) ==
    IF btn_pressed
    THEN [s EXCEPT !.waitSlots = <<>>, !.waitActive = FALSE]
    ELSE [s EXCEPT !.waitSlots = Append(@, "set_lockin_buffer"),
                   !.waitActive = TRUE]

\* timeout.disconnect() removes every slot; connect() adds one
pause_scan(s, btn_pressed) ==
    IF btn_pressed
    THEN [s EXCEPT !.waitSlots = <<>>]
    ELSE [s EXCEPT !.waitSlots = Append(@, "set_lockin_buffer"),
                   !.waitActive = TRUE]

\* ------------------------------------------------------------ event loop
\* a slot connected to waitTimer.timeout, called on the engine object
CallSlot(s, slot) ==
    IF s.engine = "TestClass"
    THEN IF slot = "set_lockin_buffer" THEN set_lockin_buffer(s)
                                       ELSE tune_syn(s)
    ELSE IF slot = "set_lockin_buffer" THEN SingleScan_set_lockin_buffer(s)
                                       ELSE SingleScan_tune_syn(s)

RECURSIVE RunSlots(_, _)
RunSlots(s, slots) ==
    IF slots = <<>> THEN s
    ELSE RunSlots(CallSlot(s, Head(slots)), Tail(slots))

\* ------------------------------------------------------------------ state
InitWith(cls) ==
    /\ entry_settings \in Plans
    /\ current_entry_index = -1
    /\ x = <<>>
    /\ y = <<>>
    /\ y_sum = <<>>
    /\ current_x_index = 0
    /\ avg = 0
    /\ current_avg = 0
    /\ waitActive = FALSE
    /\ itgActive = FALSE
    /\ waitSlots = <<"set_lockin_buffer">>
    /\ engine = cls
    /\ paused = FALSE
    /\ dialogs = <<>>
    /\ done = FALSE
    /\ ev = <<>>
    /\ saved = NoSave
    /\ installed = <<>>
    /\ snaps = <<>>
    /\ everPaused = FALSE
    /\ aborted = FALSE
    /\ failed = FALSE
    /\ tuned = FALSE
    /\ buffered = FALSE
    /\ acq = <<>>
    /\ vals = <<>>
    /\ foldAt = <<>>
    /\ twin = <<>>

\* the program as wired: self.singleScan = TestClass(...) (line 194)
Init == InitWith("TestClass")

\* the same controller driving the engine class SingleScan
InitSingleScan == InitWith("SingleScan")

started == current_entry_index >= 0

\* the window accepts clicks: it is constructed, open, and no message box
\* blocks it
interactive == started /\ ~done /\ dialogs = <<>>

\* number of calls of finish() so far
finishCount ==
    IF current_entry_index >= Len(entry_settings)
    THEN current_entry_index - Len(entry_settings) + 1 ELSE 0

\* last statement of JPLScanWindow.__init__: move_to_next_entry.emit()
Start ==
    /\ ~started
    /\ Commit(next_entry(St))

\* waitTimer expires: every connected slot (set_lockin_buffer) is called
WaitTimeout ==
    /\ waitActive
    /\ Commit(RunSlots([St EXCEPT !.waitActive = FALSE], waitSlots))

\* itgTimer expires: query_lockin_buffer is called
ItgTimeout ==
    /\ itgActive
    /\ \E y_avg \in Samples :
          LET s0 == [St EXCEPT !.itgActive = FALSE]
          IN Commit(IF engine = "TestClass"
                    THEN query_lockin_buffer(s0, y_avg)
                    ELSE SingleScan_query_lockin_buffer(s0, y_avg))

\* a click on pauseButton
PauseScan ==
    /\ interactive
    /\ LET s0 == [St EXCEPT !.paused = ~paused, !.everPaused = TRUE]
       IN Commit(IF engine = "TestClass"
                 THEN pause_scan(s0, ~paused)
                 ELSE SingleScan_pause_scan(s0, ~paused))

\* the user closes the 'Job Finished!' box: finish() goes on after exec_()
FinishDismiss ==
    /\ dialogs # <<>>
    /\ dialogs[Len(dialogs)] = "finish"
    /\ Commit([stop_timers(St) EXCEPT !.done = TRUE,
                   !.dialogs = SubSeq(dialogs, 1, Len(dialogs) - 1)])

\* the user asks to close the scan window: reject() shows its question
Reject ==
    /\ interactive
    /\ Commit([St EXCEPT !.dialogs = Append(@, "reject")])

\* the user answers the question of reject()
RejectAnswer ==
    /\ dialogs # <<>>
    /\ dialogs[Len(dialogs)] = "reject"
    /\ \E yes \in BOOLEAN :
          LET s0 == [St EXCEPT !.dialogs = SubSeq(dialogs, 1, Len(dialogs) - 1)]
          IN Commit(IF yes THEN [stop_timers(s0) EXCEPT !.done = TRUE,
                                                        !.aborted = TRUE]
                           ELSE s0)

Next ==
    \/ Start
    \/ WaitTimeout
    \/ ItgTimeout
    \/ PauseScan
    \/ FinishDismiss
    \/ Reject
    \/ RejectAnswer

Spec == Init /\ [][Next]_vars

\* with SingleScan no window completes, so finish() is never entered
NextSingleScan ==
    \/ Start
    \/ WaitTimeout
    \/ ItgTimeout
    \/ PauseScan
    \/ Reject
    \/ RejectAnswer

SpecSingleScan == InitSingleScan /\ [][NextSingleScan]_vars

\* the constructor's emit with the instrument failing in update_setting
StartFault ==
    /\ ~started
    /\ engine = "SingleScan"
    /\ \E f \in (SUBSET Faults) \ {{}} :
          Commit(next_entry([St EXCEPT !.fail = f]))

\* waitTimer expires and an instrument call of a connected slot raises; the
\* exception is printed and the slots connected after it are still called
WaitTimeoutFault ==
    /\ waitActive
    /\ engine = "SingleScan"
    /\ \E f \in (SUBSET Faults) \ {{}} :
          Commit(RunSlots([St EXCEPT !.waitActive = FALSE, !.fail = f],
                          waitSlots))

\* SingleScan with instrument calls that may raise
NextSingleScanFault ==
    \/ NextSingleScan
    \/ StartFault
    \/ WaitTimeoutFault

SpecSingleScanFault == InitSingleScan /\ [][NextSingleScanFault]_vars

\* the batch left alone: nobody clicks pause or closes the window
NextUninterrupted ==
    \/ Start
    \/ WaitTimeout
    \/ ItgTimeout
    \/ FinishDismiss

\* the constructor runs to its end and an armed QTimer expires: the Qt event
\* loop keeps running, also inside the message boxes
TimerFairness ==
    /\ WF_vars(Start)
    /\ WF_vars(WaitTimeout)
    /\ WF_vars(ItgTimeout)

SpecUninterrupted == Init /\ [][NextUninterrupted]_vars /\ TimerFairness

\* the batch with a user who clicks pause and resume but does not close
\* the window
NextPauses ==
    \/ Start
    \/ WaitTimeout
    \/ ItgTimeout
    \/ PauseScan
    \/ FinishDismiss

SpecPauses == Init /\ [][NextPauses]_vars /\ TimerFairness

\* the same user in front of SingleScan
NextSingleScanPauses ==
    \/ Start
    \/ WaitTimeout
    \/ ItgTimeout
    \/ PauseScan

SpecSingleScanPauses ==
    InitSingleScan /\ [][NextSingleScanPauses]_vars /\ TimerFairness

\* SingleScan and a TestClass engine side by side, driven by one sequence of
\* events: constructor, settle expiry, integration expiry, pause click
\* the twin at the start of a step
Twin0 == [twin EXCEPT !.ev = <<>>, !.saved = NoSave]

PairStart ==
    /\ ~started /\ twin = <<>>
    /\ Commit([next_entry(St) EXCEPT
                  !.twin = next_entry([St EXCEPT !.engine = "TestClass"])])

\* a settle expiry, handled by each engine whose waitTimer is armed
PairWaitTimeout ==
    /\ twin # <<>>
    /\ waitActive \/ twin.waitActive
    /\ LET a == IF waitActive
                THEN RunSlots([St EXCEPT !.waitActive = FALSE], waitSlots)
                ELSE St
           b == IF twin.waitActive
                THEN RunSlots([Twin0 EXCEPT !.waitActive = FALSE],
                              twin.waitSlots)
                ELSE Twin0
       IN Commit([a EXCEPT !.twin = b])

\* an integration expiry, handled by each engine whose itgTimer is armed
PairItgTimeout ==
    /\ twin # <<>>
    /\ itgActive \/ twin.itgActive
    /\ \E y_avg \in Samples :
          LET a == IF itgActive
                   THEN SingleScan_query_lockin_buffer(
                            [St EXCEPT !.itgActive = FALSE], y_avg)
                   ELSE St
              b == IF twin.itgActive
                   THEN query_lockin_buffer(
                            [Twin0 EXCEPT !.itgActive = FALSE], y_avg)
                   ELSE Twin0
          IN Commit([a EXCEPT !.twin = b])

\* a click on the pause button of both
PairPauseScan ==
    /\ twin # <<>>
    /\ interactive /\ twin.dialogs = <<>>
    /\ LET a == SingleScan_pause_scan(
                    [St EXCEPT !.paused = ~paused, !.everPaused = TRUE],
                    ~paused)
           b == pause_scan(
                    [Twin0 EXCEPT !.paused = ~paused, !.everPaused = TRUE],
                    ~paused)
       IN Commit([a EXCEPT !.twin = b])

NextPair ==
    \/ PairStart
    \/ PairWaitTimeout
    \/ PairItgTimeout
    \/ PairPauseScan

SpecPair == InitSingleScan /\ [][NextPair]_vars

\* the controller with either engine class, instruments answering
SpecBothEngines == (Init \/ InitSingleScan) /\ [][Next]_vars

TypeOK ==
    /\ entry_settings \in Plans
    /\ current_entry_index \in -1..(Len(entry_settings) + 1)
    /\ Len(y) = Len(x) /\ Len(y_sum) = Len(x)
    /\ Len(waitSlots) <= 2
    /\ waitActive \in BOOLEAN /\ itgActive \in BOOLEAN
    /\ aborted \in BOOLEAN /\ failed \in BOOLEAN
    /\ tuned \in BOOLEAN /\ buffered \in BOOLEAN
    /\ \A i \in 1..Len(acq) : acq[i] \in 0..MaxStop
    /\ Len(vals) = Len(acq) /\ \A i \in 1..Len(vals) : vals[i] \in Samples
    /\ \A i \in 1..Len(foldAt) : foldAt[i] \in 1..Len(acq)
    /\ twin = <<>> \/ twin.engine = "TestClass"

\* ---------------------------------------------------------------- claims
K == Len(entry_settings)

\* position of the first call e in the last step, 0 when it made none
Pos(e) == IF e \in Range(ev)
          THEN CHOOSE i \in 1..Len(ev) :
                   ev[i] = e /\ \A j \in 1..(i - 1) : ev[j] # e
          ELSE 0

saveCalled == "save" \in Range(ev)

\* C1: with no pause (aborted or not), save_data is called exactly when the
\* completed-pass counter has reached N+1: every save happens at
\* current_avg = N+1 of the window saved, current_avg never exceeds N+1,
\* and a window whose counter stands at N+1 has been saved.
C1_CompleteAtNPlus1 ==
    (started /\ ~everPaused) =>
        /\ current_avg <= avg + 1
        /\ saveCalled => saved.den = entry_settings[saved.entry + 1].avg + 1
        /\ current_avg = avg + 1 => current_entry_index = K

C1_Witness ==
    /\ ~everPaused /\ dialogs = <<"finish">>
    /\ saveCalled /\ saved.den = 3
    /\ current_avg = avg + 1 /\ avg = 2 /\ Len(x) = 2

RECURSIVE SumAt(_, _)
SumAt(arrays, i) ==
    IF arrays = <<>> THEN 0
    ELSE Head(arrays)[i] + SumAt(Tail(arrays), i)

\* C2: at Complete of a window of the plan, the saved spectrum is, at every
\* index, the sum of the N+1 snapshots of y taken at the pass boundaries,
\* divided by N+1; for N=1 and L=3 the first snapshot holds one sample at
\* index 0 and zeros elsewhere, the second one sample at every index.
C2_SavedIsSnapshotMean ==
    (saveCalled /\ saved.entry < K) =>
        LET N == entry_settings[saved.entry + 1].avg
            L == Len(gen_x_array(entry_settings[saved.entry + 1].start,
                                 entry_settings[saved.entry + 1].stop,
                                 entry_settings[saved.entry + 1].step))
        IN /\ Len(snaps) = N + 1
           /\ saved.den = N + 1
           /\ Len(saved.num) = L
           /\ \A i \in 1..L : saved.num[i] = SumAt(snaps, i)
           /\ (N = 1 /\ L = 3) =>
                  /\ snaps[1][1] \in Samples
                  /\ snaps[1][2] = 0 /\ snaps[1][3] = 0
                  /\ \A i \in 1..3 : snaps[2][i] \in Samples
                  /\ \A i \in 1..3 : saved.num[i] = snaps[1][i] + snaps[2][i]

C2_Witness ==
    /\ saveCalled /\ saved.entry = 0 /\ saved.den = 2
    /\ Len(saved.num) = 3
    /\ saved.num[1] = 2 /\ saved.num[2] = 1 /\ saved.num[3] = 1

\* C3: the update_setting calls use entry_settings[0], [1], ... in that
\* order, each at most once, and all K of them before finish() is entered.
C3_InstallInPlanOrder ==
    /\ Len(installed) <= K
    /\ \A i \in 1..Len(installed) :
           installed[i] = [index |-> i - 1, entry |-> entry_settings[i]]
    /\ finishCount >= 1 => Len(installed) = K

C3_Witness ==
    /\ K = 2 /\ Len(installed) = 2 /\ finishCount = 1
    /\ entry_settings[1] # entry_settings[2]
    /\ everPaused

\* C4: window i+1 is installed only in the step in which window i was saved
\* (save_data precedes update_setting), the number of installed windows
\* never exceeds the number of completed ones by more than one, and each
\* save advances current_entry_index by exactly one.
C4_State ==
    /\ started => Len(installed) =
           (IF current_entry_index < K THEN current_entry_index + 1 ELSE K)
    /\ ("install" \in Range(ev) /\ current_entry_index > 0) =>
           /\ saveCalled /\ Pos("save") < Pos("install")
           /\ saved.entry = current_entry_index - 1

C4_Step ==
    /\ current_entry_index' \in {current_entry_index, current_entry_index + 1}
    /\ current_entry_index' = current_entry_index + 1 =>
           (~started \/ "save" \in Range(ev'))
    /\ "save" \in Range(ev') =>
           current_entry_index' = current_entry_index + 1

C4_OneWindowAtATime == []C4_State /\ [][C4_Step]_vars

C4_Witness ==
    /\ "install" \in Range(ev) /\ saveCalled
    /\ current_entry_index = 1 /\ saved.entry = 0
    /\ Len(installed) = 2

\* calls of the scan cycle
CycleCalls == {"tune", "strt", "sample", "save", "install"}

\* C5: finish() is entered only in the step that saved the K-th window, at
\* most once, and after it no tune, buffer start, acquisition, save or
\* install happens.
C5_FinishTerminal ==
    /\ "finish" \in Range(ev) => (saveCalled /\ saved.entry = K - 1)
    /\ finishCount <= 1
    /\ (finishCount >= 1 /\ "finish" \notin Range(ev)) =>
           Range(ev) \cap CycleCalls = {}

\* C6: while the engine is paused no tune_syn call is made.
C6_NoTuneWhilePaused ==
    paused => "tune" \notin Range(ev)

\* C7: while the engine is paused, y_sum, y, current_x_index and current_avg
\* keep their values.
C7_FrozenWhilePaused ==
    [][(paused /\ paused') =>
          UNCHANGED <<y_sum, y, current_x_index, current_avg>>]_vars

\* a step in which the settle delay expired (stop_timers closes a dialog)
WaitExpired == waitActive /\ ~waitActive' /\ dialogs' = dialogs

\* C8: a resume arms the settle delay, exactly one slot is connected to its
\* expiry whenever the engine is not paused, and an expiry then starts
\* exactly one integration and nothing else.
C8_State == (started /\ ~paused) => Len(waitSlots) = 1

C8_Step ==
    /\ (paused /\ ~paused') => (waitActive' /\ ev' = <<>>)
    /\ (WaitExpired /\ ~paused) => (ev' = <<"strt">> /\ itgActive')

C8_ResumeOneHandler == []C8_State /\ [][C8_Step]_vars

\* C9: at most one of waitTimer and itgTimer is armed.
C9_OneDelayArmed ==
    ~(waitActive /\ itgActive)

\* C10: pause_scan(True) cancels no armed delay, makes no call of the scan
\* cycle, leaves axis, index, counter and both arrays unchanged, and only
\* disconnects the slots of the settle-delay expiry.
C10_PauseFrame ==
    [][(~paused /\ paused') =>
          /\ UNCHANGED <<waitActive, itgActive, x, current_x_index, avg,
                         current_avg, y, y_sum, current_entry_index,
                         entry_settings, dialogs, done, installed, snaps>>
          /\ ev' = <<>>
          /\ waitSlots' = <<>>]_vars

C10_Witness ==
    /\ paused /\ waitSlots = <<>> /\ ev = <<>>
    /\ waitActive /\ itgActive
    /\ current_avg = 1 /\ current_x_index = 1

\* C11: once reject() was answered Yes, both timers are stopped and from then
\* on no slot runs: no call is made, no sample is stored, nothing is folded
\* or saved, no window is installed; the answer itself saves nothing.
C11_State == aborted => (~waitActive /\ ~itgActive /\ done /\ ~saveCalled)

C11_Step ==
    aborted =>
        /\ ev' = <<>>
        /\ UNCHANGED <<x, y, y_sum, current_x_index, current_avg,
                       current_entry_index, installed, waitActive, itgActive>>

C11_AbortStopsAll == []C11_State /\ [][C11_Step]_vars

\* a window aborted half way: one pass folded, not all of them
C11_Witness ==
    /\ aborted /\ everPaused
    /\ current_entry_index = 0 /\ K = 2
    /\ current_avg = 1 /\ avg = 2 /\ current_x_index = 1

\* C12: once a slot of SingleScan was ended by a failing instrument call or
\* a failing buffer read during window i, the batch stays at window i: no
\* step saves, emits move_to_next_entry (the entry index stays), installs a
\* window or enters finish(), and y_sum and current_avg keep the values they
\* had before the failing step.
C12_Step ==
    failed' =>
        /\ "save" \notin Range(ev') /\ "finish" \notin Range(ev')
        /\ started =>
              /\ "install" \notin Range(ev')
              /\ UNCHANGED <<current_entry_index, installed, y_sum,
                             current_avg>>

C13_Termination ==
    /\ \A i \in 0..(MaxK - 1) :
          <>(i >= K \/ (saveCalled /\ saved.entry = i))
    /\ <>(finishCount = 1 /\ "finish" \in Range(ev))

C13_Witness ==
    /\ K = 2 /\ finishCount = 1 /\ "finish" \in Range(ev)
    /\ saveCalled /\ saved.entry = 1 /\ saved.den = 3 /\ ~everPaused

\* C14: if the pause button is toggled finitely often and is left released
\* (resumed), then with timers that expire every window of the plan is still
\* eventually saved (Complete), whichever timer ran at the clicks.
C14_ResumeCompletes ==
    <>[](~paused) =>
        \A i \in 0..(MaxK - 1) :
            <>(i >= K \/ (saveCalled /\ saved.entry = i))

\* C15: driven by the same events, SingleScan and TestClass are in the same
\* abstract state after every event (current index, pass counter, armed
\* timers, slots connected to the settle expiry) and call save_data
\* (Complete) in the same steps.
C15_SameAbstractStates ==
    twin # <<>> =>
        /\ current_x_index = twin.current_x_index
        /\ current_avg = twin.current_avg
        /\ waitActive = twin.waitActive
        /\ itgActive = twin.itgActive
        /\ waitSlots = twin.waitSlots
        /\ saveCalled <=> "save" \in Range(twin.ev)

\* C16: every step that calls update_setting, for the first or a later
\* window and with either engine class, ends with the axis of the installed
\* entry, current_x_index = 0, current_avg = 0, y_sum all zero and as long
\* as the axis, with exactly one tune_syn call, made after the install, and
\* with waitTimer armed.
C16_Step ==
    "install" \in Range(ev') =>
        LET e == installed'[Len(installed')].entry
        IN /\ Len(installed') = Len(installed) + 1
           /\ x' = gen_x_array(e.start, e.stop, e.step)
           /\ current_x_index' = 0
           /\ current_avg' = 0
           /\ avg' = e.avg
           /\ y_sum' = [i \in 1..Len(x') |-> 0]
           /\ Cardinality({i \in 1..Len(ev') : ev'[i] = "tune"}) = 1
           /\ ev'[Len(ev')] = "tune" /\ ev'[Len(ev') - 1] = "install"
           /\ waitActive'

C16_InstallResets == [][C16_Step]_vars

\* a second window of another length installed over a window that ended
\* with its sums filled
C16_Witness ==
    /\ "install" \in Range(ev) /\ Len(installed) = 2
    /\ saveCalled /\ Len(saved.num) = 3 /\ Len(y_sum) = 1
    /\ engine = "TestClass"

\* C17: in every step, update_setting's fresh arrays aside, y_sum is changed
\* if and only if current_avg grows by exactly one in that step, the change
\* is one fold of y, and the index does not move in such a step; a step
\* that acquires nothing changes neither. Hence the number of folds made in
\* the window equals current_avg. (When the step goes on to save_data the
\* values after next_freq are the ones handed to it.)
C17_Step ==
    LET inst == "install" \in Range(ev')
        fold == "fold" \in Range(ev')
        sv == "save" \in Range(ev')
        ys == IF sv THEN saved'.num ELSE y_sum'
        ca == IF sv THEN saved'.den ELSE current_avg'
    IN IF "sample" \in Range(ev')
       THEN /\ ca \in {current_avg, current_avg + 1}
            /\ (ys # y_sum) <=> (ca = current_avg + 1)
            /\ fold <=> (ca = current_avg + 1)
            /\ fold => \E v \in Samples :
                   ys = [i \in 1..Len(y_sum) |-> y_sum[i] +
                           [y EXCEPT ![current_x_index + 1] = v][i]]
            /\ (fold /\ ~inst) => current_x_index' = current_x_index
       ELSE /\ ~fold
            /\ ~inst => (y_sum' = y_sum /\ current_avg' = current_avg)

C17_State ==
    started =>
        /\ current_avg >= 1 => Len(snaps) = current_avg
        /\ current_avg = 0 => y_sum = [i \in 1..Len(x) |-> 0]

Pass(L, c) == [i \in 1..L |-> IF c % 2 = 1 THEN i - 1 ELSE L - i]

\* the priming sample followed by the full passes 1 .. c-1
RECURSIVE Passes(_, _)
Passes(L, c) == IF c <= 1 THEN <<0>> ELSE Passes(L, c - 1) \o Pass(L, c - 1)

\* number of samples already taken in the running pass
InPass(L, c, idx) == IF c % 2 = 1 THEN idx ELSE L - 1 - idx

C18_PingPong ==
    /\ (started /\ current_avg >= 1) =>
          acq = Passes(Len(x), current_avg) \o
                SubSeq(Pass(Len(x), current_avg), 1,
                       InPass(Len(x), current_avg, current_x_index))
    /\ (saveCalled /\ saved.entry < K) =>
          LET e == entry_settings[saved.entry + 1]
              L == Len(saved.num)
          IN /\ acq = Passes(L, e.avg + 1)
             /\ Len(acq) = 1 + e.avg * L

\* an uninterrupted window of two points and two averages, just saved:
\* priming sample, forward pass, backward pass
C18_Witness ==
    /\ saveCalled /\ saved.entry = 0 /\ ~everPaused
    /\ acq = <<0, 0, 1, 1, 0>>

\* C19: the calls of the engine follow the cycle tune -> buffer start ->
\* sample -> (tune | save): a buffer start needs a tune_syn call since the
\* previous buffer start, a sample needs a buffer start since the previous
\* sample, and a sample is followed in its own step by a tune or by a save,
\* whatever the user clicks on the pause button.
RECURSIVE CycleOK(_, _, _)
CycleOK(t, b, calls) ==
    IF calls = <<>> THEN TRUE
    ELSE LET c == Head(calls)
             rest == SelectSeq(Tail(calls),
                               LAMBDA e : e \in {"tune", "strt", "sample",
                                                  "save"})
         IN CASE c = "tune" -> CycleOK(TRUE, b, Tail(calls))
              [] c = "strt" -> t /\ CycleOK(FALSE, TRUE, Tail(calls))
              [] c = "sample" ->
                    /\ b
                    /\ rest # <<>> /\ Head(rest) \in {"tune", "save"}
                    /\ CycleOK(t, FALSE, Tail(calls))
              [] OTHER -> CycleOK(t, b, Tail(calls))

C19_CycleOrder == [][CycleOK(tuned, buffered, ev')]_vars

\* C20: while the pause button is down no integration is started: no step
\* calls set_lockin_buffer or arms itgTimer, and a sample taken during the
\* pause leaves itgTimer idle, so at most one sample is taken before the
\* engine stalls.
C20_Step ==
    (paused /\ paused') =>
        /\ "strt" \notin Range(ev')
        /\ itgActive' => itgActive
        /\ "sample" \in Range(ev') => ~itgActive'

C20_NoIntegrationWhilePaused == [][C20_Step]_vars

\* C21: once a window is installed, 0 <= current_x_index <= L-1 and y and
\* y_sum have the length L of the axis; a step that acquires a sample writes
\* y at the index it started with and leaves every other entry of y as it
\* was, and a step that acquires nothing leaves y alone: y is cleared only
\* by update_setting, never between passes.
C21_State ==
    started =>
        /\ Len(x) >= 1
        /\ current_x_index \in 0..(Len(x) - 1)
        /\ Len(y) = Len(x) /\ Len(y_sum) = Len(x)

C21_Step ==
    (started /\ "install" \notin Range(ev')) =>
        IF "sample" \in Range(ev')
        THEN \E v \in Samples : y' = [y EXCEPT ![current_x_index + 1] = v]
        ELSE y' = y

C21_IndexAndArrays == []C21_State /\ [][C21_Step]_vars

\* the first sample of the backward pass written at index 1 while index 0
\* keeps the sample of the forward pass
C21_Witness ==
    /\ "sample" \in Range(ev) /\ current_avg = 2
    /\ Len(x) = 2 /\ current_x_index = 0
    /\ y = <<2, 1>> /\ acq = <<0, 0, 1, 1>>

\* the acquisition, counted in the window, whose sample y held at index i
\* (from 1) at the k-th pass boundary; 0 when none had been made there
TagAt(k, i) ==
    LET js == {j \in 1..foldAt[k] : acq[j] = i - 1}
    IN IF js = {} THEN 0 ELSE CHOOSE j \in js : \A h \in js : h <= j

\* what the first k pass boundaries added to y_sum at index i
RECURSIVE FoldedAt(_, _)
FoldedAt(k, i) ==
    IF k = 0 THEN 0
    ELSE FoldedAt(k - 1, i) + (IF TagAt(k, i) = 0 THEN 0 ELSE vals[TagAt(k, i)])

\* C22: when a window of L >= 2 points is saved, y_sum at index 0 is the sum
\* of N+1 different acquisitions, one per pass boundary and the priming
\* sample among them, and y_sum at every other index is the sum of N
\* different acquisitions, the priming pass adding the 0 that y still held
\* there; save_data divides every index by the same N+1.
C22_DistinctSamples ==
    (saveCalled /\ saved.entry < K /\ Len(saved.num) >= 2) =>
        LET N == entry_settings[saved.entry + 1].avg
            L == Len(saved.num)
            tags(i) == {TagAt(k, i) : k \in 1..Len(foldAt)} \ {0}
            empty(i) == {k \in 1..Len(foldAt) : TagAt(k, i) = 0}
        IN /\ Len(foldAt) = N + 1 /\ saved.den = N + 1
           /\ \A i \in 1..L : saved.num[i] = FoldedAt(N + 1, i)
           /\ Cardinality(tags(1)) = N + 1 /\ empty(1) = {}
           /\ 1 \in tags(1)
           /\ \A i \in 2..L : Cardinality(tags(i)) = N /\ empty(i) = {1}

\* an uninterrupted window of two points and two averages, saved with the
\* sum of three samples at index 0 and of two samples at index 1
C22_Witness ==
    /\ saveCalled /\ saved.entry = 0 /\ ~everPaused
    /\ acq = <<0, 0, 1, 1, 0>> /\ vals = <<1, 2, 2, 1, 2>>
    /\ saved.num = <<5, 3>> /\ saved.den = 3

====
